---- MODULE Spec2Model ----
(***************************************************************************)
(* Model of src/src/components/Minesweeper.tsx: the board functions        *)
(* (createEmptyBoard, placeMines, revealCell, checkWin, countFlags) and    *)
(* the Minesweeper component's state, event handlers, effects and interval *)
(* callback.                                                               *)
(*                                                                         *)
(* Scheduling.  JavaScript runs one task to completion, and React renders  *)
(* and runs the effects of a click or change event before the next event   *)
(* is dispatched.  The handlers are therefore single steps; the effects a  *)
(* commit schedules are steps of their own, recorded in pendingEffects,    *)
(* and no handler and no interval callback runs while one is pending.  The *)
(* state updates of an effect are rendered before the next event.          *)
(*                                                                         *)
(* Board sizes.  The three presets of DIFFICULTIES are scaled down (the    *)
(* source has 9x9/10, 16x16/40, 16x30/99): one line board, one square     *)
(* board with an inner cell, and one board with more columns than rows and *)
(* several mines.                                                          *)
(***************************************************************************)
EXTENDS Integers, Sequences, FiniteSets, Bags, TLC

\* Bounds of the model.
BeginnerCols == 4
ExpertMines == 2
MaxTimer == 2
FillFlags == 1

VARIABLES
    difficulty,      \* useState "Beginner"
    board,           \* useState createEmptyBoard(rows, cols): board[y][x]
    status,          \* useState "playing"
    started,         \* useState false
    timer,           \* useState 0
    intervalId,      \* useState null (0 is null)
    intervals,       \* the ids of setInterval timers created and not cleared
    pendingEffects,  \* effects scheduled by the last commit and not yet run
    call             \* a board function run step by step: its local variables

vars == <<difficulty, board, status, started, timer, intervalId, intervals, pendingEffects,
          call>>

null == 0

DIFFICULTIES ==
    [Beginner     |-> [rows |-> 1, cols |-> BeginnerCols, mines |-> 1],
     Intermediate |-> [rows |-> 3, cols |-> 3, mines |-> 1],
     Expert       |-> [rows |-> 2, cols |-> 3, mines |-> ExpertMines]]

DifficultyNames == DOMAIN DIFFICULTIES

rows == DIFFICULTIES[difficulty].rows
cols == DIFFICULTIES[difficulty].cols
mines == DIFFICULTIES[difficulty].mines

----------------------------------------------------------------------------
\* Board logic

\* createEmptyBoard with rows and columns exchanged.
createEmptyBoardTransposed(r, c) ==
    [y \in 0..(c - 1) |->
        [x \in 0..(r - 1) |->
            [x |-> x, y |-> y, isMine |-> FALSE, isRevealed |-> FALSE,
             isFlagged |-> FALSE, adjacent |-> 0]]]

createEmptyBoard(r, c) ==
    [y \in 0..(r - 1) |->
        [x \in 0..(c - 1) |->
            [x |-> x, y |-> y, isMine |-> FALSE, isRevealed |-> FALSE,
             isFlagged |-> FALSE, adjacent |-> 0]]]

\* board.length and board[0].length
Height(b) == Cardinality(DOMAIN b)
Width(b) == Cardinality(DOMAIN b[0])

\* The coordinates <<x, y>> of the cells of b.
Coords(b) == {<<x, y>> : x \in 0..(Width(b) - 1), y \in 0..(Height(b) - 1)}

\* The pairs <<dx, dy>> in the order of the two nested loops, the centre left out.
Deltas ==
    <<  <<-1, -1>>, <<0, -1>>, <<1, -1>>,
        <<-1, 0>>,             <<1, 0>>,
        <<-1, 1>>,  <<0, 1>>,  <<1, 1>>  >>

InBounds(b, nx, ny) == ny >= 0 /\ ny < Height(b) /\ nx >= 0 /\ nx < Width(b)

\* countAdjacent with the diagonal neighbours left out.
countAdjacentOrthogonal(b, x, y) ==
    Cardinality({i \in 1..Len(Deltas) :
        LET nx == x + Deltas[i][1]
            ny == y + Deltas[i][2]
        IN  /\ Deltas[i][1] = 0 \/ Deltas[i][2] = 0
            /\ InBounds(b, nx, ny) /\ b[ny][nx].isMine})

\* The count of the inner loops of placeMines for the cell (x, y).
countAdjacent(b, x, y) ==
    Cardinality({i \in 1..Len(Deltas) :
        LET nx == x + Deltas[i][1]
            ny == y + Deltas[i][2]
        IN  InBounds(b, nx, ny) /\ b[ny][nx].isMine})

\* The second half of placeMines: adjacent of every cell that is not a mine.
calcAdjacent(b) ==
    [y \in DOMAIN b |->
        [x \in DOMAIN b[y] |->
            IF b[y][x].isMine THEN b[y][x]
            ELSE [b[y][x] EXCEPT !.adjacent = countAdjacent(b, x, y)]]]

setMines(b, S) ==
    [y \in DOMAIN b |->
        [x \in DOMAIN b[y] |->
            IF <<x, y>> \in S THEN [b[y][x] EXCEPT !.isMine = TRUE] ELSE b[y][x]]]

\* The cells the rejection loop of placeMines can still turn into a mine.
mineCandidates(b, initial) ==
    {c \in Coords(b) : c # initial /\ ~b[c[2]][c[1]].isMine}

\* placeMines without the test against the initial cell.
placeMinesAnywhere(b, n, initial) ==
    {calcAdjacent(setMines(b, S)) :
        S \in {T \in SUBSET {c \in Coords(b) : ~b[c[2]][c[1]].isMine} : Cardinality(T) = n}}

\* The boards placeMines can return: the loop ends once n cells, none of them
\* the initial cell or a mine already, have been made mines, whatever
\* Math.random draws.  Empty when the loop cannot end.
placeMines(b, n, initial) ==
    {calcAdjacent(setMines(b, S)) :
        S \in {T \in SUBSET mineCandidates(b, initial) : Cardinality(T) = n}}

\* neighbours with the diagonal ones left out.
neighboursOrthogonal(b, x, y) ==
    LET all == [i \in 1..Len(Deltas) |-> <<x + Deltas[i][1], y + Deltas[i][2]>>]
        inside(c) == InBounds(b, c[1], c[2]) /\ (c[1] = x \/ c[2] = y)
    IN  SelectSeq(all, inside)

\* The in-bounds neighbours of (x, y) in the order revealCell pushes them.
neighbours(b, x, y) ==
    LET all == [i \in 1..Len(Deltas) |-> <<x + Deltas[i][1], y + Deltas[i][2]>>]
        inside(c) == InBounds(b, c[1], c[2])
    IN  SelectSeq(all, inside)

\* revealLoop without the test of adjacent and isMine: the neighbours of every
\* cell it reveals are pushed.
RECURSIVE revealLoopExpandingAll(_, _, _)
revealLoopExpandingAll(b, stack, visited) ==
    IF stack = <<>> THEN b
    ELSE LET top == stack[Len(stack)]
             rest == SubSeq(stack, 1, Len(stack) - 1)
             x == top[1]
             y == top[2]
             cell == b[y][x]
         IN  IF top \in visited THEN revealLoopExpandingAll(b, rest, visited)
             ELSE IF cell.isRevealed \/ cell.isFlagged
                  THEN revealLoopExpandingAll(b, rest, visited \cup {top})
             ELSE revealLoopExpandingAll([b EXCEPT ![y][x].isRevealed = TRUE],
                                         rest \o neighbours(b, x, y),
                                         visited \cup {top})

\* The while loop of revealCell: stack.pop() takes the last element.
RECURSIVE revealLoop(_, _, _)
revealLoop(b, stack, visited) ==
    IF stack = <<>> THEN b
    ELSE LET top == stack[Len(stack)]
             rest == SubSeq(stack, 1, Len(stack) - 1)
             x == top[1]
             y == top[2]
             cell == b[y][x]
         IN  IF top \in visited THEN revealLoop(b, rest, visited)
             ELSE IF cell.isRevealed \/ cell.isFlagged
                  THEN revealLoop(b, rest, visited \cup {top})
             ELSE LET nb == [b EXCEPT ![y][x].isRevealed = TRUE]
                  IN  IF cell.adjacent = 0 /\ ~cell.isMine
                      THEN revealLoop(nb, rest \o neighbours(b, x, y), visited \cup {top})
                      ELSE revealLoop(nb, rest, visited \cup {top})

revealCell(b, x, y) == revealLoop(b, << <<x, y>> >>, {})

\* checkWin that is content with one safe cell still hidden.
checkWinOneShort(b, n) ==
    LET revealed == Cardinality({c \in Coords(b) :
                        ~b[c[2]][c[1]].isMine /\ b[c[2]][c[1]].isRevealed})
        total == Cardinality({c \in Coords(b) : ~b[c[2]][c[1]].isMine})
    IN  revealed >= total - 1

checkWin(b, n) ==
    LET revealed == Cardinality({c \in Coords(b) :
                        ~b[c[2]][c[1]].isMine /\ b[c[2]][c[1]].isRevealed})
        total == Cardinality({c \in Coords(b) : ~b[c[2]][c[1]].isMine})
    IN  revealed = total

countFlags(b) == Cardinality({c \in Coords(b) : b[c[2]][c[1]].isFlagged})

\* revealMines that also takes the flag off the mines it reveals.
revealMinesUnflagging(b) ==
    [y \in DOMAIN b |->
        [x \in DOMAIN b[y] |->
            IF b[y][x].isMine
            THEN [b[y][x] EXCEPT !.isRevealed = TRUE, !.isFlagged = FALSE]
            ELSE b[y][x]]]

\* newBoard.map(row => row.map(c => c.isMine ? {...c, isRevealed: true} : c))
revealMines(b) ==
    [y \in DOMAIN b |->
        [x \in DOMAIN b[y] |->
            IF b[y][x].isMine THEN [b[y][x] EXCEPT !.isRevealed = TRUE] ELSE b[y][x]]]

\* flagMines that leaves the board as it is.
flagMinesNothing(b) == b

\* newBoard.map(row => row.map(c => c.isMine ? {...c, isFlagged: true} : c))
flagMines(b) ==
    [y \in DOMAIN b |->
        [x \in DOMAIN b[y] |->
            IF b[y][x].isMine THEN [b[y][x] EXCEPT !.isFlagged = TRUE] ELSE b[y][x]]]

----------------------------------------------------------------------------
\* The component

Init ==
    /\ difficulty = "Beginner"
    /\ board = createEmptyBoard(rows, cols)
    /\ status = "playing"
    /\ started = FALSE
    /\ timer = 0
    /\ intervalId = null
    /\ intervals = {}
    /\ pendingEffects = {"difficulty", "timer"}
    /\ call = [fn |-> "none"]

\* The effects the commit of this step's state updates schedules: an effect
\* runs after a render in which one of its dependencies changed.
scheduled ==
    (IF difficulty' # difficulty THEN {"difficulty"} ELSE {})
        \cup (IF <<started', status'>> # <<started, status>> THEN {"timer"} ELSE {})

\* resetGame without its clearInterval.
resetGameKeepingInterval ==
    /\ board' = createEmptyBoard(rows, cols)
    /\ status' = "playing"
    /\ started' = FALSE
    /\ timer' = 0
    /\ intervals' = intervals
    /\ intervalId' = null
    /\ UNCHANGED difficulty

\* The state updates of resetGame.
resetGame ==
    /\ board' = createEmptyBoard(rows, cols)
    /\ status' = "playing"
    /\ started' = FALSE
    /\ timer' = 0
    /\ intervals' = IF intervalId # null THEN intervals \ {intervalId} ELSE intervals
    /\ intervalId' = null
    /\ UNCHANGED difficulty

\* What handleCellClick does with newBoard, the copy of the board it works on
\* once the mines are on it: the status it sets (or leaves) and the board it
\* passes to setBoard.
\* clickOutcome that flags the mines after every reveal of a safe cell, not
\* only after the winning one.
clickOutcomeAlwaysFlagging(newBoard, x, y) ==
    LET cell == newBoard[y][x]
        revealedBoard == revealCell(newBoard, x, y)
    IN  IF cell.isMine
        THEN [status |-> "lost",
              board |-> revealMines([newBoard EXCEPT ![y][x].isRevealed = TRUE])]
        ELSE IF checkWin(revealedBoard, mines)
        THEN [status |-> "won", board |-> flagMines(revealedBoard)]
        ELSE [status |-> status, board |-> flagMines(revealedBoard)]

clickOutcome(newBoard, x, y) ==
    LET cell == newBoard[y][x]
        revealedBoard == revealCell(newBoard, x, y)
    IN  IF cell.isMine
        THEN [status |-> "lost",
              board |-> revealMines([newBoard EXCEPT ![y][x].isRevealed = TRUE])]
        ELSE IF checkWin(revealedBoard, mines)
        THEN [status |-> "won", board |-> flagMines(revealedBoard)]
        ELSE [status |-> status, board |-> revealedBoard]

\* clickOutcomes with the test of started dropped: mines are placed on every
\* click.
clickOutcomesPlacingAgain(x, y) ==
    {clickOutcome(newBoard, x, y) : newBoard \in placeMines(board, mines, <<x, y>>)}

\* The outcomes of handleCellClick(x, y) past its two early returns, one for
\* each board placeMines can return on the first click.
clickOutcomes(x, y) ==
    {clickOutcome(newBoard, x, y) :
        newBoard \in (IF ~started THEN placeMines(board, mines, <<x, y>>) ELSE {board})}

\* The reveal of handleCellClick, after its two early returns.
reveal(x, y) ==
    \E o \in clickOutcomes(x, y) :
        /\ started' = TRUE
        /\ status' = o.status
        /\ board' = o.board

\* The mines-remaining figure the component renders.
minesRemaining == mines - countFlags(board)

\* handleCellClick without the test of status.
handleCellClickAnyStatus(x, y) ==
    /\ pendingEffects = {}
    /\ IF board[y][x].isFlagged \/ board[y][x].isRevealed
       THEN UNCHANGED <<board, status, started>>
       ELSE reveal(x, y)
    /\ UNCHANGED <<difficulty, timer, intervalId, intervals>>
    /\ pendingEffects' = scheduled
    /\ UNCHANGED call

\* handleCellClick without the test of isFlagged.
handleCellClickOnFlagged(x, y) ==
    /\ pendingEffects = {}
    /\ IF status # "playing" \/ board[y][x].isRevealed
       THEN UNCHANGED <<board, status, started>>
       ELSE reveal(x, y)
    /\ UNCHANGED <<difficulty, timer, intervalId, intervals>>
    /\ pendingEffects' = scheduled
    /\ UNCHANGED call

\* onClick of a cell
handleCellClick(x, y) ==
    /\ pendingEffects = {}
    /\ IF status # "playing" \/ board[y][x].isFlagged \/ board[y][x].isRevealed
       THEN UNCHANGED <<board, status, started>>
       ELSE reveal(x, y)
    /\ UNCHANGED <<difficulty, timer, intervalId, intervals>>
    /\ pendingEffects' = scheduled
    /\ UNCHANGED call

\* A copy of b with every cell flagged at (x, y) and nothing else changed.
flagToggledAlwaysOn(b, x, y) ==
    [b EXCEPT ![y][x].isFlagged = TRUE]

\* The board handleCellRightClick sets after its early returns: a copy of b
\* with isFlagged of the cell at (x, y) negated.
flagToggled(b, x, y) ==
    [b EXCEPT ![y][x].isFlagged = ~b[y][x].isFlagged]

\* The flag toggle of handleCellRightClick, after its early returns.
toggleFlag(x, y) ==
    board' = flagToggled(board, x, y)

\* handleCellRightClick without the test of started.
handleCellRightClickBeforeStart(x, y) ==
    /\ pendingEffects = {}
    /\ IF status # "playing" \/ board[y][x].isRevealed
       THEN UNCHANGED board
       ELSE toggleFlag(x, y)
    /\ UNCHANGED <<difficulty, status, started, timer, intervalId, intervals>>
    /\ pendingEffects' = scheduled
    /\ UNCHANGED call

\* handleCellRightClick without the test of isRevealed.
handleCellRightClickOnRevealed(x, y) ==
    /\ pendingEffects = {}
    /\ IF status # "playing" \/ ~started
       THEN UNCHANGED board
       ELSE toggleFlag(x, y)
    /\ UNCHANGED <<difficulty, status, started, timer, intervalId, intervals>>
    /\ pendingEffects' = scheduled
    /\ UNCHANGED call

\* onContextMenu of a cell
handleCellRightClick(x, y) ==
    /\ pendingEffects = {}
    /\ IF status # "playing" \/ ~started \/ board[y][x].isRevealed
       THEN UNCHANGED board
       ELSE toggleFlag(x, y)
    /\ UNCHANGED <<difficulty, status, started, timer, intervalId, intervals>>
    /\ pendingEffects' = scheduled
    /\ UNCHANGED call

\* handleCellClick called with coordinates off the board: past the status
\* test, newBoard[y] is undefined when y is off the board and newBoard[y][x]
\* is undefined when only x is, so reading the cell at line 159 or its
\* isFlagged at line 160 throws a TypeError, before any state is set.
handleCellClickThrows(x, y) ==
    /\ status = "playing"
    /\ ~InBounds(board, x, y)

\* handleCellRightClick called with coordinates off the board: past the test
\* of status and started, reading the cell at line 190 or its isRevealed at
\* line 191 throws a TypeError, before any state is set.
handleCellRightClickThrows(x, y) ==
    /\ status = "playing"
    /\ started
    /\ ~InBounds(board, x, y)

\* onClick of the restart button
Restart ==
    /\ pendingEffects = {}
    /\ resetGame
    /\ pendingEffects' = scheduled
    /\ UNCHANGED call

\* onChange of the select, which is disabled while started
SelectDifficulty(d) ==
    /\ pendingEffects = {}
    /\ ~started
    /\ d # difficulty
    /\ difficulty' = d
    /\ UNCHANGED <<board, status, started, timer, intervalId, intervals>>
    /\ pendingEffects' = scheduled
    /\ UNCHANGED call

\* useEffect(() => resetGame(), [difficulty]); the first of the effects
DifficultyEffect ==
    /\ "difficulty" \in pendingEffects
    /\ resetGame
    /\ pendingEffects' = (pendingEffects \ {"difficulty"}) \cup scheduled
    /\ UNCHANGED call

\* An id setInterval has not handed out among the live ones.
newIntervalId == CHOOSE i \in 1..(Cardinality(intervals) + 1) : i \notin intervals

\* The timer effect without the branch that clears the interval.
timerEffectBodyNeverClearing ==
    IF started /\ status = "playing" /\ intervalId = null
    THEN /\ intervals' = intervals \cup {newIntervalId}
         /\ intervalId' = newIntervalId
    ELSE UNCHANGED <<intervals, intervalId>>

\* The body of the timer effect.
timerEffectBody ==
    IF started /\ status = "playing"
    THEN IF intervalId = null
         THEN /\ intervals' = intervals \cup {newIntervalId}
              /\ intervalId' = newIntervalId
         ELSE UNCHANGED <<intervals, intervalId>>
    ELSE IF intervalId # null
         THEN /\ intervals' = intervals \ {intervalId}
              /\ intervalId' = null
         ELSE UNCHANGED <<intervals, intervalId>>

\* useEffect(..., [started, status]); runs after the difficulty effect
TimerEffect ==
    /\ "timer" \in pendingEffects
    /\ "difficulty" \notin pendingEffects
    /\ timerEffectBody
    /\ UNCHANGED <<difficulty, board, status, started, timer>>
    /\ pendingEffects' = pendingEffects \ {"timer"}
    /\ UNCHANGED call

\* The callback of setInterval: setTimer(t => t + 1)
Tick(id) ==
    /\ id \in intervals
    /\ pendingEffects = {}
    /\ timer < MaxTimer
    /\ timer' = timer + 1
    /\ UNCHANGED <<difficulty, board, status, started, intervalId, intervals, pendingEffects,
                   call>>

Next ==
    \/ \E c \in Coords(board) : handleCellClick(c[1], c[2])
    \/ \E c \in Coords(board) : handleCellRightClick(c[1], c[2])
    \/ Restart
    \/ \E d \in DifficultyNames : SelectDifficulty(d)
    \/ DifficultyEffect
    \/ TimerEffect
    \/ \E id \in intervals : Tick(id)

Spec == Init /\ [][Next]_vars

----------------------------------------------------------------------------
\* revealCell step by step, one turn of its while loop per step, with the pop
\* generalised: the code's stack.pop() takes the last element pushed, here a
\* turn may take any element of the stack, so the last-in-first-out order of
\* the code, first-in-first-out and every other order are behaviours.  As
\* the place of an element in the stack then no longer matters, the stack is
\* kept as the bag of its elements.  board is the board the function writes
\* to; call holds its locals stack and visited and, for the properties, the
\* board and cell it was called with and the number of writes of isRevealed
\* so far.

\* The turn of the loop with the flagged cells revealed like the others.
turnRevealingFlagged(b, cl, c) ==
    LET x == c[1]
        y == c[2]
        cell == b[y][x]
        rest == cl.stack (-) SetToBag({c})
        taken == [cl EXCEPT !.stack = rest]
    IN  IF c \in cl.visited THEN [board |-> b, call |-> taken]
        ELSE IF cell.isRevealed
             THEN [board |-> b,
                   call |-> [taken EXCEPT !.visited = cl.visited \cup {c}]]
        ELSE [board |-> [b EXCEPT ![y][x].isRevealed = TRUE],
              call |-> [taken EXCEPT
                          !.visited = cl.visited \cup {c},
                          !.writes = cl.writes + 1,
                          !.stack =
                            IF cell.adjacent = 0 /\ ~cell.isMine
                            THEN rest (+) SetToBag({neighbours(b, x, y)[k] :
                                            k \in 1..Len(neighbours(b, x, y))})
                            ELSE rest]]

\* One turn of the while loop of revealCell on board b with locals cl, taking
\* one copy of c off the stack: the board and the locals after it.
turn(b, cl, c) ==
    LET x == c[1]
        y == c[2]
        cell == b[y][x]
        rest == cl.stack (-) SetToBag({c})
        taken == [cl EXCEPT !.stack = rest]
    IN  IF c \in cl.visited THEN [board |-> b, call |-> taken]
        ELSE IF cell.isRevealed \/ cell.isFlagged
             THEN [board |-> b,
                   call |-> [taken EXCEPT !.visited = cl.visited \cup {c}]]
        ELSE [board |-> [b EXCEPT ![y][x].isRevealed = TRUE],
              call |-> [taken EXCEPT
                          !.visited = cl.visited \cup {c},
                          !.writes = cl.writes + 1,
                          !.stack =
                            IF cell.adjacent = 0 /\ ~cell.isMine
                            THEN rest (+) SetToBag({neighbours(b, x, y)[k] :
                                            k \in 1..Len(neighbours(b, x, y))})
                            ELSE rest]]

\* A copy of b with the cells of F flagged.
setFlags(b, F) ==
    [y \in DOMAIN b |->
        [x \in DOMAIN b[y] |->
            [b[y][x] EXCEPT !.isFlagged = <<x, y>> \in F]]]

\* The boards revealCell is run on: a board of the preset d with the preset's
\* mines anywhere and at most FillFlags flags anywhere.  A cell revealed
\* before the call takes the same branch of the loop as a flagged one.
fillBoards(d) ==
    LET empty == createEmptyBoard(DIFFICULTIES[d].rows, DIFFICULTIES[d].cols)
        all == Coords(empty)
        minings == {S \in SUBSET all : Cardinality(S) = DIFFICULTIES[d].mines}
        flaggings == {F \in SUBSET all : Cardinality(F) <= FillFlags}
    IN  {setFlags(calcAdjacent(setMines(empty, t[1])), t[2]) : t \in minings \X flaggings}

\* The entry of revealCell(board, x, y): lines 72 to 75.
InitFill ==
    /\ difficulty \in {"Intermediate", "Expert"}
    /\ board \in fillBoards(difficulty)
    /\ status = "playing"
    /\ started = TRUE
    /\ timer = 0
    /\ intervalId = null
    /\ intervals = {}
    /\ pendingEffects = {}
    /\ \E c \in Coords(board) :
        call = [fn |-> "revealCell", stack |-> SetToBag({c}), visited |-> {},
                origin |-> board, start |-> c, writes |-> 0]

\* One turn of the while loop of revealCell, on a copy of c in the stack.
Turn(c) ==
    /\ call.fn = "revealCell"
    /\ BagIn(c, call.stack)
    /\ \E after \in {turn(board, call, c)} :
        /\ board' = after.board
        /\ call' = after.call
    /\ UNCHANGED <<difficulty, status, started, timer, intervalId, intervals, pendingEffects>>

NextFill == \E c \in Coords(board) : Turn(c)

\* The loop runs on while the stack holds an element: nothing suspends it.
SpecFill == InitFill /\ [][NextFill]_vars /\ WF_vars(NextFill)

----------------------------------------------------------------------------
\* placeMines step by step: one turn of its rejection loop per step, the cell
\* Math.random draws being any cell of the board, then the adjacent counts
\* and the return.  board is the board the function writes to; call holds its
\* parameters mines and initial, its local placed, and whether it returned.

\* The turn of the loop without the test of isMine: a cell that is a mine
\* already is counted again.
drawnOverMines(b, cl, c) ==
    IF c = cl.initial
    THEN [board |-> b, call |-> cl]
    ELSE [board |-> [b EXCEPT ![c[2]][c[1]].isMine = TRUE],
          call |-> [cl EXCEPT !.placed = cl.placed + 1]]

\* One turn of the while loop of placeMines on board b with locals cl, the
\* cell drawn being c: the board and the locals after it.
drawn(b, cl, c) ==
    IF c = cl.initial \/ b[c[2]][c[1]].isMine
    THEN [board |-> b, call |-> cl]
    ELSE [board |-> [b EXCEPT ![c[2]][c[1]].isMine = TRUE],
          call |-> [cl EXCEPT !.placed = cl.placed + 1]]

\* The entry of placeMines(board, mines, initial) on the blank board of a
\* preset, for any cell clicked first and any number of mines up to one more
\* than the board has cells.
InitPlace ==
    /\ difficulty \in DifficultyNames
    /\ board = createEmptyBoard(rows, cols)
    /\ status = "playing"
    /\ started = FALSE
    /\ timer = 0
    /\ intervalId = null
    /\ intervals = {}
    /\ pendingEffects = {}
    /\ \E n \in 0..(rows * cols + 1) : \E c \in Coords(board) :
        call = [fn |-> "placeMines", mines |-> n, initial |-> c, placed |-> 0,
                returned |-> FALSE]

\* One turn of the while loop of placeMines, Math.random drawing the cell c.
Draw(c) ==
    /\ call.fn = "placeMines"
    /\ ~call.returned
    /\ call.placed < call.mines
    /\ \E after \in {drawn(board, call, c)} :
        /\ board' = after.board
        /\ call' = after.call
    /\ UNCHANGED <<difficulty, status, started, timer, intervalId, intervals, pendingEffects>>

\* The loop has ended: the adjacent counts are computed and the board returned.
ReturnPlaced ==
    /\ call.fn = "placeMines"
    /\ ~call.returned
    /\ call.placed >= call.mines
    /\ board' = calcAdjacent(board)
    /\ call' = [call EXCEPT !.returned = TRUE]
    /\ UNCHANGED <<difficulty, status, started, timer, intervalId, intervals, pendingEffects>>

NextPlace ==
    \/ \E c \in Coords(board) : Draw(c)
    \/ ReturnPlaced

\* Fair random choice: Math.random draws every cell with the same positive
\* probability at every turn, so with probability 1 the loop does not go on
\* drawing rejected cells for ever while a cell it would accept exists.  A
\* rejected draw changes nothing, so this is weak fairness of the steps that
\* change the state.
SpecPlace == InitPlace /\ [][NextPlace]_vars /\ WF_vars(NextPlace)

----------------------------------------------------------------------------
\* Vocabulary of the properties

Cell(b, c) == b[c[2]][c[1]]
MineCells(b) == {c \in Coords(b) : Cell(b, c).isMine}
RevealedCells(b) == {c \in Coords(b) : Cell(b, c).isRevealed}
FlaggedCells(b) == {c \in Coords(b) : Cell(b, c).isFlagged}
SafeCells(b) == Coords(b) \ MineCells(b)

Abs(n) == IF n < 0 THEN -n ELSE n

\* c and d are different cells that touch, by a side or a corner.
Adjacent(c, d) == c # d /\ Abs(c[1] - d[1]) <= 1 /\ Abs(c[2] - d[2]) <= 1

\* The mines around c, counted over the cells of the board.
MinesAround(b, c) == Cardinality({d \in MineCells(b) : Adjacent(c, d)})

----------------------------------------------------------------------------
\* C1: the first reveal of a session never hits a mine: whatever cell it
\* targets and wherever the mines fall, after it the target cell is no mine and
\* is revealed, and the status is playing or won, never lost.
C1_FirstRevealSafe ==
    [][\A c \in Coords(board) :
        (~started /\ started' /\ handleCellClick(c[1], c[2])) =>
            /\ ~Cell(board', c).isMine
            /\ Cell(board', c).isRevealed
            /\ status' \in {"playing", "won"}]_vars

\* The state right after a first reveal: the timer effect it scheduled has not
\* run yet.
C1_Witness ==
    /\ started
    /\ pendingEffects = {"timer"}
    /\ intervalId = null
    /\ status = "playing"
    /\ RevealedCells(board) # {}
    /\ MineCells(board) # {}

\* C2: no mines before the first reveal, exactly the preset's mines after it,
\* and the mines stay where they are while the session stays started.
C2_MineCount ==
    /\ [](Cardinality(MineCells(board)) = IF started THEN mines ELSE 0)
    /\ [][(started /\ started') => MineCells(board') = MineCells(board)]_vars

\* A started session in which cells were revealed and flagged after the first
\* reveal.
C2_Witness ==
    /\ started
    /\ Cardinality(MineCells(board)) = mines
    /\ Cardinality(RevealedCells(board)) >= 2
    /\ FlaggedCells(board) # {}
    /\ status = "playing"

\* C3: adjacent of every cell that is no mine is the number of mines among its
\* in-bounds neighbours, which is between 0 and 8; before mines are placed it
\* is 0 for every cell.
C3_AdjacentExact ==
    /\ \A c \in SafeCells(board) :
        /\ Cell(board, c).adjacent = MinesAround(board, c)
        /\ Cell(board, c).adjacent \in 0..8
    /\ ~started => \A c \in Coords(board) : Cell(board, c).adjacent = 0

\* A board with mines on which some cell counts a mine on a diagonal and some
\* cell counts none.
C3_Witness ==
    /\ started
    /\ \E c \in SafeCells(board) : \E d \in MineCells(board) :
        /\ Adjacent(c, d) /\ c[1] # d[1] /\ c[2] # d[2]
        /\ Cell(board, c).adjacent >= 1
    /\ \E c \in SafeCells(board) : Cell(board, c).adjacent = 0

\* The cells of b that are no mine and have no mine around them.
ZeroCells(b) == {c \in SafeCells(b) : Cell(b, c).adjacent = 0}

\* S with every cell of passable that a chain of touching cells of passable
\* links to it.
RECURSIVE Grow(_, _)
Grow(S, passable) ==
    LET T == S \cup {d \in passable : \E c \in S : Adjacent(c, d)}
    IN  IF T = S THEN S ELSE Grow(T, passable)

\* The zero cells linked to c through zero cells of open, and the cells of
\* open that border them.
Region(b, open, c) ==
    LET comp == Grow({c}, ZeroCells(b) \cap open)
    IN  comp \cup {d \in open : \E e \in comp : Adjacent(e, d)}

\* The boards a click on c can leave when c is hidden and unflagged, the
\* session is playing and the handlers are enabled, and c is a zero cell of
\* the board the click reveals on.
ZeroReveals(c) ==
    IF /\ pendingEffects = {}
       /\ status = "playing"
       /\ ~Cell(board, c).isRevealed
       /\ ~Cell(board, c).isFlagged
    THEN {o.board : o \in {p \in clickOutcomes(c[1], c[2]) :
                            ~Cell(p.board, c).isMine /\ Cell(p.board, c).adjacent = 0}}
    ELSE {}

\* C4 as stated: a reveal of a hidden, unflagged zero cell leaves revealed
\* exactly the cells revealed before, the component of zero cells linked to
\* the target and the cells bordering it, flagged cells alone blocking the
\* way and staying hidden.
C4_AsStated ==
    \A c \in Coords(board) : \A after \in ZeroReveals(c) :
        RevealedCells(after) = RevealedCells(board)
            \cup Region(after, Coords(board) \ FlaggedCells(board), c)

\* C4, amended: a reveal of a hidden, unflagged zero cell leaves revealed
\* exactly the cells revealed before, the zero cells linked to the target
\* through cells that were hidden and unflagged, and the hidden, unflagged
\* cells bordering those: flagged cells and cells revealed earlier both block
\* the way.
C4_FloodFill ==
    \A c \in Coords(board) : \A after \in ZeroReveals(c) :
        RevealedCells(after) = RevealedCells(board)
            \cup Region(after,
                    Coords(board) \ (FlaggedCells(board) \cup RevealedCells(board)), c)

\* After a flood fill: a revealed zero cell borders a cell that is hidden and
\* not flagged, which a fill through that zero cell would have revealed.
C4_Witness ==
    /\ status = "playing"
    /\ \E c \in ZeroCells(board) \cap RevealedCells(board) :
        \E d \in Coords(board) :
            /\ Adjacent(c, d)
            /\ ~Cell(board, d).isRevealed
            /\ ~Cell(board, d).isFlagged
    /\ Cardinality(ZeroCells(board) \cap RevealedCells(board)) >= 2

\* C5: won means every safe cell is revealed and every mine is flagged; a
\* started session that is still playing has a safe cell hidden; and the
\* status turns won in, and only in, a click that reveals the last hidden safe
\* cells.
C5_WinExact ==
    /\ [](status = "won" =>
            /\ SafeCells(board) \subseteq RevealedCells(board)
            /\ MineCells(board) \subseteq FlaggedCells(board))
    /\ []((status = "playing" /\ started) =>
            SafeCells(board) \ RevealedCells(board) # {})
    /\ [][(status # "won" /\ status' = "won") =>
            /\ \E c \in Coords(board) : handleCellClick(c[1], c[2])
            /\ SafeCells(board') \ RevealedCells(board) # {}
            /\ SafeCells(board') \subseteq RevealedCells(board')]_vars

\* A session won after the clock had ticked.
C5_Witness ==
    /\ status = "won"
    /\ started
    /\ timer > 0
    /\ pendingEffects = {}

\* C6: a click while playing on a hidden, unflagged mine sets the status to
\* lost and reveals every mine; no flag changes and no safe cell is revealed
\* or hidden by it.
C6_LossRevealsMines ==
    [][\A c \in Coords(board) :
        (/\ status = "playing"
         /\ Cell(board, c).isMine
         /\ ~Cell(board, c).isRevealed
         /\ ~Cell(board, c).isFlagged
         /\ handleCellClick(c[1], c[2])) =>
            /\ status' = "lost"
            /\ MineCells(board') = MineCells(board)
            /\ MineCells(board') \subseteq RevealedCells(board')
            /\ FlaggedCells(board') = FlaggedCells(board)
            /\ RevealedCells(board') \cap SafeCells(board)
                    = RevealedCells(board) \cap SafeCells(board)]_vars

\* A lost session with a flagged mine, a flagged safe cell and a hidden safe
\* cell.
C6_Witness ==
    /\ status = "lost"
    /\ MineCells(board) \subseteq RevealedCells(board)
    /\ MineCells(board) \cap FlaggedCells(board) # {}
    /\ SafeCells(board) \cap FlaggedCells(board) # {}
    /\ SafeCells(board) \ (RevealedCells(board) \cup FlaggedCells(board)) # {}

Terminal == {"won", "lost"}

\* C7: once the status is won or lost, no click, right click or tick changes
\* it; it changes only back to playing, and only by resetGame, run by the
\* restart button or by the difficulty effect.
C7_TerminalUntilReset ==
    [][(status \in Terminal) =>
        (status' = status \/ (status' = "playing" /\ (Restart \/ DifficultyEffect)))]_vars

\* A lost session at rest, in which every handler and the restart button can
\* run.
C7_Witness ==
    /\ status = "lost"
    /\ pendingEffects = {}
    /\ SafeCells(board) \ RevealedCells(board) # {}

\* C8 as stated: in every reachable state, won and lost ones included, no cell
\* is revealed and flagged at once.
C8_AsStated ==
    \A c \in Coords(board) : ~(Cell(board, c).isRevealed /\ Cell(board, c).isFlagged)

\* C8, amended: while the status is playing or won no cell is revealed and
\* flagged at once; in a lost session the cells that are both are mines, the
\* flagged mines the loss revealed.
C8_RevealedXorFlagged ==
    \A c \in Coords(board) :
        (Cell(board, c).isRevealed /\ Cell(board, c).isFlagged) =>
            status = "lost" /\ Cell(board, c).isMine

\* A lost session in which a flagged mine was revealed by the loss, beside a
\* revealed safe cell.
C8_Witness ==
    /\ status = "lost"
    /\ \E c \in MineCells(board) : Cell(board, c).isRevealed /\ Cell(board, c).isFlagged
    /\ SafeCells(board) \cap RevealedCells(board) # {}

\* C9: at most one interval is live at any time, the live one is the one
\* intervalId holds, and an interval is created only when none is live.
C9_OneInterval ==
    /\ [](Cardinality(intervals) <= 1)
    /\ [](intervals \subseteq {intervalId})
    /\ [][~(intervals' \subseteq intervals) => intervals = {}]_vars

\* A session whose interval is live and has ticked.
C9_Witness ==
    /\ Cardinality(intervals) = 1
    /\ started
    /\ status = "playing"
    /\ timer > 0

\* C10: the timer grows only in a step taken while playing and started; it
\* does not change while the status stays won or lost; it is 0 while the
\* session is not started; and once the effects have run no interval is live
\* unless the session is started and playing.
C10_ClockOnlyWhilePlaying ==
    /\ [][timer' > timer => (status = "playing" /\ started)]_vars
    /\ [][(status \in Terminal /\ status' = status) => timer' = timer]_vars
    /\ [](~started => timer = 0)
    /\ []((pendingEffects = {} /\ ~(started /\ status = "playing")) => intervals = {})

\* A lost session whose timer shows the ticks counted before the loss, with
\* the interval cleared.
C10_Witness ==
    /\ status = "lost"
    /\ timer > 0
    /\ timer < MaxTimer
    /\ intervals = {}
    /\ pendingEffects = {}

\* b has r rows of c cells, each with its own coordinates, and nothing on it:
\* no mine, no revealed cell, no flag, adjacent 0 everywhere.
Blank(b, r, c) ==
    /\ DOMAIN b = 0..(r - 1)
    /\ \A y \in DOMAIN b :
        /\ DOMAIN b[y] = 0..(c - 1)
        /\ \A x \in DOMAIN b[y] :
            /\ b[y][x].x = x /\ b[y][x].y = y
            /\ ~b[y][x].isMine /\ ~b[y][x].isRevealed /\ ~b[y][x].isFlagged
            /\ b[y][x].adjacent = 0

\* C11: resetGame, run by the restart button or by the difficulty effect after
\* a change of difficulty, leaves a fresh session: a blank board of the current
\* preset's rows and columns, status playing, not started, timer 0, no interval
\* live.  So the board has the preset's dimensions whenever the handlers can
\* run, and in particular when the first reveal places the mines.
C11_FreshSession ==
    /\ [][(Restart \/ DifficultyEffect) =>
            /\ Blank(board', DIFFICULTIES[difficulty'].rows, DIFFICULTIES[difficulty'].cols)
            /\ status' = "playing"
            /\ ~started'
            /\ timer' = 0
            /\ intervals' = {}
            /\ intervalId' = null]_vars
    /\ [](pendingEffects = {} => (Height(board) = rows /\ Width(board) = cols))
    /\ [][(~started /\ started') => (Height(board) = rows /\ Width(board) = cols)]_vars

\* A fresh session of another preset than the first, after a change of
\* difficulty and its reset.
C11_Witness ==
    /\ difficulty = "Expert"
    /\ Blank(board, rows, cols)
    /\ ~started
    /\ status = "playing"
    /\ timer = 0
    /\ intervals = {}
    /\ pendingEffects = {}

\* The coordinates one step off the board b, on any side of it.
OutOfRange(b) ==
    {c \in ((-1)..Width(b)) \X ((-1)..Height(b)) : ~InBounds(b, c[1], c[2])}

\* C12, as the specification states it: a reveal or a flag toggle with
\* coordinates off the board raises no error.  The code has no bounds test in
\* either handler, so the property is violated in every playing session.
C12_AsStated ==
    pendingEffects = {} =>
        \A c \in OutOfRange(board) :
            /\ ~handleCellClickThrows(c[1], c[2])
            /\ ~handleCellRightClickThrows(c[1], c[2])

\* C13: every no-op leaves the whole session as it was.  A click on a flagged
\* or revealed cell, a right click on a revealed cell, a right click before
\* the session has started, and any click or right click in a won or lost
\* session change no variable: the board with its mines, status, started and
\* timer stay, the interval stays, and no effect is scheduled.  Stated on the
\* steps: a step that changes some variable is none of these clicks.
C13_NoOpsChangeNothing ==
    [][\/ UNCHANGED vars
       \/ \A c \in Coords(board) :
            /\ ( \/ status \in Terminal
                 \/ Cell(board, c).isFlagged
                 \/ Cell(board, c).isRevealed ) => ~handleCellClick(c[1], c[2])
            /\ ( \/ status \in Terminal
                 \/ ~started
                 \/ Cell(board, c).isRevealed ) => ~handleCellRightClick(c[1], c[2])]_vars

\* A started session with the clock past 0 that holds a flagged cell and a
\* revealed cell, where each of the no-op clicks is on offer.
C13_Witness ==
    /\ status = "playing"
    /\ started
    /\ pendingEffects = {}
    /\ timer > 0
    /\ FlaggedCells(board) # {}
    /\ RevealedCells(board) # {}

\* The outcomes of a click on c that gets past the early returns of
\* handleCellClick: none unless the session is playing and c is hidden and
\* not flagged.
Reveals(c) ==
    IF /\ pendingEffects = {}
       /\ status = "playing"
       /\ ~Cell(board, c).isRevealed
       /\ ~Cell(board, c).isFlagged
    THEN clickOutcomes(c[1], c[2])
    ELSE {}

\* C14, as the specification states it: no reveal, winning ones included,
\* changes the number of flagged cells.
C14_AsStated ==
    \A c \in Coords(board) : \A o \in Reveals(c) :
        countFlags(o.board) = countFlags(board)

\* C14, amended: a reveal that does not win, flood fill or losing, leaves the
\* flagged cells as they were, and so their number; a winning reveal keeps the
\* player's flags and adds a flag on every mine that had none, so the number
\* of flagged cells becomes the number of mines.
C14_FlagsUnderReveal ==
    \A c \in Coords(board) : \A o \in Reveals(c) :
        /\ o.status # "won" =>
            /\ FlaggedCells(o.board) = FlaggedCells(board)
            /\ countFlags(o.board) = countFlags(board)
        /\ o.status = "won" =>
            /\ FlaggedCells(o.board) = FlaggedCells(board) \cup MineCells(o.board)
            /\ countFlags(o.board) = mines

\* A playing session holding a flag where each kind of reveal is on offer: one
\* that wins and raises the number of flagged cells, one that loses, and one
\* that only fills.
C14_Witness ==
    /\ FlaggedCells(board) # {}
    /\ \E c \in Coords(board) : \E o \in Reveals(c) :
        o.status = "won" /\ countFlags(o.board) > countFlags(board)
    /\ \E c \in Coords(board) : \E o \in Reveals(c) : o.status = "lost"
    /\ \E c \in Coords(board) : \E o \in Reveals(c) : o.status = "playing"

\* C15: a right click on a hidden cell of a started, playing session flips
\* isFlagged of that cell and nothing else.  On the board: every other cell is
\* as before, the cell keeps isMine, isRevealed and adjacent, and a second
\* toggle of the same cell gives the first board back.  On the step: status,
\* started, timer and the interval stay, whatever the flags now cover, so no
\* win is declared by a flag.
C15_ToggleFlipsOneFlag ==
    /\ [](\A c \in Coords(board) :
            (status = "playing" /\ started /\ ~Cell(board, c).isRevealed) =>
                LET after == flagToggled(board, c[1], c[2])
                IN  /\ Coords(after) = Coords(board)
                    /\ \A d \in Coords(board) \ {c} : Cell(after, d) = Cell(board, d)
                    /\ Cell(after, c).isFlagged = ~Cell(board, c).isFlagged
                    /\ Cell(after, c).isMine = Cell(board, c).isMine
                    /\ Cell(after, c).isRevealed = Cell(board, c).isRevealed
                    /\ Cell(after, c).adjacent = Cell(board, c).adjacent
                    /\ flagToggled(after, c[1], c[2]) = board)
    /\ [][\A c \in Coords(board) :
            ( /\ status = "playing" /\ started /\ ~Cell(board, c).isRevealed
              /\ handleCellRightClick(c[1], c[2]) ) =>
                /\ board' = flagToggled(board, c[1], c[2])
                /\ UNCHANGED <<difficulty, status, started, timer, intervalId, intervals>>
                /\ pendingEffects' = {}]_vars

\* A started, playing session with a flag on a mine, a flag on a safe cell and
\* a hidden cell with no flag: toggles have set flags, and both a toggle that
\* sets one and a toggle that clears one are on offer.
C15_Witness ==
    /\ status = "playing"
    /\ started
    /\ pendingEffects = {}
    /\ FlaggedCells(board) \cap MineCells(board) # {}
    /\ FlaggedCells(board) \cap SafeCells(board) # {}
    /\ Coords(board) \ (FlaggedCells(board) \cup RevealedCells(board)) # {}

\* C18: mines are revealed by the loss branch only.  In a playing or won
\* session no mine is revealed, so a revealed mine means the session is lost;
\* and the board a reveal of a safe cell leaves, fill included, has no mine
\* revealed.
C18_MinesRevealedOnlyByLoss ==
    /\ status \in {"playing", "won"} => MineCells(board) \cap RevealedCells(board) = {}
    /\ \A c \in Coords(board) : \A o \in Reveals(c) :
        o.status # "lost" => MineCells(o.board) \cap RevealedCells(o.board) = {}

\* After a flood fill: a playing session with a revealed zero cell, a revealed
\* numbered cell, and next to that one a mine still hidden and not flagged.
C18_Witness ==
    /\ status = "playing"
    /\ ZeroCells(board) \cap RevealedCells(board) # {}
    /\ \E m \in MineCells(board) : \E d \in RevealedCells(board) :
        /\ Adjacent(m, d)
        /\ ~Cell(board, m).isRevealed
        /\ ~Cell(board, m).isFlagged

\* C19: in a won session the flagged cells are exactly the mines, whatever
\* flags the player set or cleared on the way: countFlags is the number of
\* mines and the mines-remaining figure is 0.
C19_WonFlagsAreTheMines ==
    status = "won" =>
        /\ FlaggedCells(board) = MineCells(board)
        /\ countFlags(board) = mines
        /\ minesRemaining = 0

\* A won Expert session, with as many mines as the preset has, all flagged.
C19_Witness ==
    /\ status = "won"
    /\ difficulty = "Expert"
    /\ pendingEffects = {}
    /\ Cardinality(MineCells(board)) = ExpertMines
    /\ countFlags(board) = ExpertMines

\* C20: while the session has not started the board is blank, the status is
\* playing and the timer is 0.  So the first click of a session, on whichever
\* cell, gets past the early returns of handleCellClick, and every board it
\* can leave holds the preset's number of mines, none of them under the click
\* unless the click lost.
C20_BlankUntilStarted ==
    ~started =>
        /\ Blank(board, Height(board), Width(board))
        /\ status = "playing"
        /\ timer = 0
        /\ pendingEffects = {} =>
            \A c \in Coords(board) :
                /\ Reveals(c) # {}
                /\ \A o \in Reveals(c) :
                    /\ Cardinality(MineCells(o.board)) = mines
                    /\ Cell(o.board, c).isRevealed

\* An Intermediate session not yet started, in which a first click on any
\* cell has an outcome with mines on the board.
C20_Witness ==
    /\ ~started
    /\ difficulty = "Intermediate"
    /\ pendingEffects = {}
    /\ \A c \in Coords(board) :
        \E o \in Reveals(c) : MineCells(o.board) # {}

\* C16: the board the flood fill leaves does not depend on the order in which
\* the frontier is processed.  Whatever element each turn of the loop takes,
\* when the stack is empty the board is the one revealCell returns with the
\* code's last-in-first-out order; every write of isRevealed reveals a cell
\* that was hidden, so no cell is written twice and there are at most
\* rows * cols writes; and the loop ends.
C16_FillOrderIndependent ==
    /\ [](call.fn = "revealCell" =>
            /\ call.writes = Cardinality(RevealedCells(board) \ RevealedCells(call.origin))
            /\ call.writes <= rows * cols
            /\ call.visited \subseteq Coords(board)
            /\ call.stack = EmptyBag =>
                board = revealCell(call.origin, call.start[1], call.start[2]))
    /\ <>(call.fn = "revealCell" /\ call.stack = EmptyBag)

\* A fill that ran to its end and revealed several cells around a flag.
C16_Witness ==
    /\ call.fn = "revealCell"
    /\ call.stack = EmptyBag
    /\ call.writes >= 4
    /\ FlaggedCells(board) # {}

\* C17: mine placement by rejection sampling ends, under fair random choice,
\* whenever mines <= rows * cols - 1, and it has then made exactly that many
\* different cells mines, none of them the initial cell: the board it returns
\* is one of those the one-step placeMines of the handlers returns.  With
\* more mines than that it never leaves the loop.
C17_PlacementTerminates ==
    /\ [](call.fn = "placeMines" =>
            /\ call.placed = Cardinality(MineCells(board))
            /\ ~Cell(board, call.initial).isMine
            /\ call.returned =>
                /\ Cardinality(MineCells(board)) = call.mines
                /\ board \in placeMines(createEmptyBoard(rows, cols), call.mines,
                                        call.initial)
            /\ call.mines > rows * cols - 1 =>
                /\ ~call.returned
                /\ call.placed < call.mines)
    /\ (call.fn = "placeMines" /\ call.mines <= rows * cols - 1)
            ~> (call.fn = "placeMines" /\ call.returned)

\* A placement that returned with the most mines the board can take: every
\* cell of the Intermediate board but the initial one is a mine.
C17_Witness ==
    /\ call.fn = "placeMines"
    /\ call.returned
    /\ difficulty = "Intermediate"
    /\ call.mines = rows * cols - 1
    /\ MineCells(board) = Coords(board) \ {call.initial}

====
